---- MODULE Spec2Model ----
(***************************************************************************)
(* Model of the redash-manager sync engine: downloadQueries and the        *)
(* helpers it drives (hash.js, fileManager.js, RedashClient).              *)
(*                                                                         *)
(* Text bodies are sequences of characters, so that trimEnd is computed.   *)
(* A SHA-256 digest is modelled as the injective tag <<"sha256", text>> of *)
(* the text that was digested.                                             *)
(***************************************************************************)
EXTENDS Integers, Sequences, FiniteSets, TLC

\* ---------------------------------------------------------------- bounds
NumQueries == 2      \* records held by the Remote Source, ids 1..NumQueries
pageSize == 2        \* getAllQueries page size, scaled down from 100
MaxRuns == 2         \* consecutive runs in the multi-run specification
MaxLen == 3          \* length of the texts that are fingerprinted on their own

QueryIds == 1..NumQueries

\* ---------------------------------------------------------------- values
Null == <<"null">>           \* JS null / undefined, where a text is expected
None == "null"               \* JS null, where a response string is expected
NullObject == [null |-> TRUE]  \* JS null, where an object is expected
NoFile == <<"ENOENT">>       \* a file that does not exist
Unseen == [unseen |-> TRUE]  \* server record not observed yet

\* characters String.prototype.trim and trimEnd strip (space, tab, line terminators)
Whitespace == {" ", "\t", "\n", "\r"}

\* Bodies the local query.sql file may hold at start (user edits included)
LocalBodies == { <<>>, <<"a", " ">>, <<"b">>, <<"b", " ">> }
\* Bodies whose digest may be cached in query.json at start
CachedBodies == { <<"a">> }
\* Values of the `query` field of a record served by the Remote Source
RemoteBodies == { <<>>, <<"a">>, <<"b">> }

\* ------------------------------------------------------------- hash.js
RECURSIVE trimEnd(_)
trimEnd(content) ==
  IF Len(content) > 0 /\ content[Len(content)] \in Whitespace
  THEN trimEnd(SubSeq(content, 1, Len(content) - 1))
  ELSE content

\* JS truthiness of a string-or-null value
Truthy(v) == v # Null /\ v # <<>>

\* x || ''
OrEmpty(v) == IF Truthy(v) THEN v ELSE <<>>

\* generateHash that digests the content as it is, with no trimEnd
generateHashUntrimmed(content) == <<"sha256", content>>

\* return crypto.createHash('sha256').update(content.trimEnd(), ...).digest('hex')
generateHash(content) == <<"sha256", trimEnd(content)>>

hashQuery(q) == generateHash(OrEmpty(q.query))

\* const localHash = localSqlContent ? generateHash(localSqlContent) : null
LocalHashOf(localSqlContent) ==
  IF Truthy(localSqlContent) THEN generateHash(localSqlContent) ELSE Null

\* -------------------------------------------------------- fileManager.js
VARIABLES sqlFile, jsonFile

NoMeta == [enoent |-> TRUE]

readQueryMetadata(queryId) ==
  IF jsonFile[queryId] = NoMeta THEN NullObject ELSE jsonFile[queryId]

readQuerySql(queryId) ==
  IF sqlFile[queryId] = NoFile THEN Null ELSE sqlFile[queryId]

\* ---------------------------------------------------------- run state
VARIABLES remote,            \* Remote Source: record per id, Unseen until served
          run,               \* number of the current run (wall clock of writes)
          prevStatus,        \* summary header of the previous run, None in run 1
          pc,                \* position of downloadQueries
          page, results, idx, fetched,   \* getAllQueries generator frame
          query, localSqlContent, localHash, cachedHash, remoteHash,
          batchMode, conflictBatchMode, userQuit,
          downloaded, skipped, updatedFromRemote, updatedToRemote,
          conflicts, total,
          status,            \* summary header printed, None before
          response,          \* last response a prompt resolved to, None before
          line,              \* the answer line read by that prompt, Null before
          branch,            \* label logged for the current record
          requests, promptUserCalls, promptConflictCalls, updateCalls, writes,
          lastUpdate,        \* last body sent to updateQuery and its outcome
          env,               \* process.env: REDASH_URL and REDASH_API_KEY
          available,         \* number of records the Remote Source holds
          dirEnsured,        \* ensureQueriesDir() was called in this run
          exitCode,          \* exit code of the process, -1 while it runs
          errorsThrown,      \* errors thrown so far in this run, in order
          outcome,           \* how each record's processing ended in this run
          prevOutcome        \* outcome of the previous run

\* two texts and their fingerprints, for generateHash applied on its own
VARIABLES textA, textB, hashA, hashB

bench == <<textA, textB, hashA, hashB>>
disk == <<sqlFile, jsonFile>>
gen == <<page, results, idx, fetched>>
locals == <<query, localSqlContent, localHash, cachedHash, remoteHash>>
modes == <<batchMode, conflictBatchMode, userQuit>>
counters == <<downloaded, skipped, updatedFromRemote, updatedToRemote,
              conflicts, total>>
ghosts == <<requests, promptUserCalls, promptConflictCalls, updateCalls,
            writes, lastUpdate>>
boot == <<env, available, dirEnsured>>
exit == <<exitCode, errorsThrown>>
vars == <<sqlFile, jsonFile, remote, run, prevStatus, pc, page, results, idx, fetched,
          query, localSqlContent, localHash, cachedHash, remoteHash,
          batchMode, conflictBatchMode, userQuit,
          downloaded, skipped, updatedFromRemote, updatedToRemote,
          conflicts, total, status, response, line, branch,
          requests, promptUserCalls, promptConflictCalls, updateCalls, writes,
          lastUpdate, env, available, dirEnsured, exitCode, errorsThrown, outcome,
          prevOutcome, textA, textB, hashA, hashB>>

NoQuery == [id |-> 0, query |-> Null]
\* values of an environment variable: unset, empty, set
UrlValues == {Null, <<>>, <<"u">>}
KeyValues == {Null, <<>>, <<"k">>}
NoUpdate == [id |-> 0, body |-> Null, ok |-> FALSE]

\* buildMetadata(query, hash): descriptive fields are copied from the record
buildMetadata(q, hash) ==
  [id |-> q.id, hash |-> hash, downloaded_at |-> run]

\* The state when main() calls the command's action
RunStart ==
  /\ pc = "start"
  /\ dirEnsured = FALSE /\ exitCode = -1 /\ errorsThrown = <<>>
  /\ outcome = [i \in QueryIds |-> "none"]
  /\ page = 1 /\ results = <<>> /\ idx = 1 /\ fetched = FALSE
  /\ query = NoQuery /\ localSqlContent = Null /\ localHash = Null
  /\ cachedHash = Null /\ remoteHash = Null
  /\ batchMode = None /\ conflictBatchMode = None /\ userQuit = FALSE
  /\ downloaded = 0 /\ skipped = 0 /\ updatedFromRemote = 0
  /\ updatedToRemote = 0 /\ conflicts = 0 /\ total = 0
  /\ status = None /\ response = None /\ line = Null /\ branch = "none"
  /\ requests = 0 /\ promptUserCalls = 0 /\ promptConflictCalls = 0
  /\ updateCalls = 0 /\ writes = 0 /\ lastUpdate = NoUpdate

Init ==
  /\ available \in 0..NumQueries
  /\ sqlFile \in [QueryIds -> {NoFile} \cup LocalBodies]
  /\ \E f \in [QueryIds -> {NoFile} \cup CachedBodies] :
       jsonFile = [i \in QueryIds |->
                     IF f[i] = NoFile THEN NoMeta
                     ELSE [id |-> i, hash |-> generateHash(f[i]),
                           downloaded_at |-> 0]]
  \* the mirror holds no directory for an id the server never had
  /\ \A i \in QueryIds :
       i > available => sqlFile[i] = NoFile /\ jsonFile[i] = NoMeta
  /\ remote = [i \in QueryIds |-> Unseen]
  /\ run = 1
  /\ prevStatus = None
  /\ prevOutcome = [i \in QueryIds |-> "none"]
  /\ env \in [REDASH_URL : UrlValues, REDASH_API_KEY : KeyValues]
  /\ RunStart
  /\ textA = <<>> /\ textB = <<>> /\ hashA = Null /\ hashB = Null

\* ------------------------------------------------------------- main
\* an error is thrown and caught by a try/catch of downloadQueries
Caught(error) ==
  /\ errorsThrown' = Append(errorsThrown, error)
  /\ exitCode' = exitCode

\* an error propagates out of downloadQueries: main's catch prints
\* 'Error: ...' and calls process.exit(1)
Fatal(error) ==
  /\ errorsThrown' = Append(errorsThrown, error)
  /\ exitCode' = 1
  /\ pc' = "failed"

\* an 'error' event is emitted on an emitter that has no 'error' listener:
\* Node throws it as an uncaught exception and the process ends with code 1
Uncaught(error) ==
  /\ errorsThrown' = Append(errorsThrown, error)
  /\ exitCode' = 1
  /\ pc' = "failed"

\* createClient with the API key not looked at
createClientUrlOnly ==
  IF ~Truthy(env.REDASH_URL) THEN "throws" ELSE "client"

\* createClient(): if (!baseUrl || !apiKey) throw new Error(...)
createClient ==
  IF ~Truthy(env.REDASH_URL) \/ ~Truthy(env.REDASH_API_KEY)
  THEN "throws" ELSE "client"

\* const client = createClient(); await ensureQueriesDir();
Startup ==
  /\ pc = "start"
  /\ createClient = "client"
  /\ dirEnsured' = TRUE
  /\ pc' = "next"
  /\ UNCHANGED <<bench,
                 env, available, exit, outcome, prevOutcome, response, line, disk, remote, run,
                 prevStatus, gen, locals, modes, counters, status, branch,
                 ghosts>>

\* createClient() throws before anything else is done
StartupFails ==
  /\ pc = "start"
  /\ createClient = "throws"
  /\ Fatal("ConfigurationError")
  /\ UNCHANGED <<bench,
                 boot, outcome, prevOutcome, response, line, disk, remote, run,
                 prevStatus, gen, locals, modes, counters, status, branch,
                 ghosts>>

\* ------------------------------------------- RedashClient.getAllQueries
\* ids of the records of page p, in the server's order
PageLen(p) ==
  IF available >= p * pageSize THEN pageSize
  ELSE IF available > (p - 1) * pageSize THEN available - (p - 1) * pageSize
  ELSE 0

PageId(p, k) == (p - 1) * pageSize + k

\* RequestPage where the next page is asked for before the records of the
\* current one were all yielded
RequestPagePrefetched ==
  /\ pc = "next"
  /\ \/ ~fetched
     \/ Len(results) # 0 /\ ~(Len(results) < pageSize)
  /\ LET p == IF fetched THEN page + 1 ELSE page
         n == PageLen(p)
     IN \E served \in [1..n -> RemoteBodies] :
          /\ \A k \in 1..n : remote[PageId(p, k)] # Unseen
                               => served[k] = remote[PageId(p, k)].query
          /\ page' = p
          /\ results' = [k \in 1..n |-> [id |-> PageId(p, k), query |-> served[k]]]
          /\ remote' = [i \in QueryIds |->
                          IF \E k \in 1..n : PageId(p, k) = i
                          THEN [id |-> i, query |-> served[i - (p - 1) * pageSize]]
                          ELSE remote[i]]
  /\ idx' = 1
  /\ fetched' = TRUE
  /\ requests' = requests + 1
  /\ UNCHANGED <<bench,
                 boot, exit, outcome, prevOutcome, response, line, disk, run,
                 prevStatus, pc, locals, modes, counters, status, branch,
                 promptUserCalls, promptConflictCalls, updateCalls, writes,
                 lastUpdate>>

\* const data = await this.request(`/queries/my?...page=${page}...`)
RequestPage ==
  /\ pc = "next"
  /\ \/ ~fetched
     \/ idx > Len(results) /\ Len(results) # 0 /\ ~(Len(results) < pageSize)
  /\ LET p == IF fetched THEN page + 1 ELSE page
         n == PageLen(p)
     IN \E served \in [1..n -> RemoteBodies] :
          /\ \A k \in 1..n : remote[PageId(p, k)] # Unseen
                               => served[k] = remote[PageId(p, k)].query
          /\ page' = p
          /\ results' = [k \in 1..n |-> [id |-> PageId(p, k), query |-> served[k]]]
          /\ remote' = [i \in QueryIds |->
                          IF \E k \in 1..n : PageId(p, k) = i
                          THEN [id |-> i, query |-> served[i - (p - 1) * pageSize]]
                          ELSE remote[i]]
  /\ idx' = 1
  /\ fetched' = TRUE
  /\ requests' = requests + 1
  /\ UNCHANGED <<bench,
                 boot, exit, outcome, prevOutcome, response, line, disk, run,
                 prevStatus, pc, locals, modes, counters, status, branch,
                 promptUserCalls, promptConflictCalls, updateCalls, writes,
                 lastUpdate>>

\* RequestPageFails where the error is swallowed and the page asked again
RequestPageFailsRetried ==
  /\ pc = "next"
  /\ \/ ~fetched
     \/ idx > Len(results) /\ Len(results) # 0 /\ ~(Len(results) < pageSize)
  /\ requests' = requests + 1
  /\ Caught("TransportError:getAllQueries")
  /\ pc' = pc
  /\ UNCHANGED <<bench,
                 boot, outcome, prevOutcome, response, line, disk, remote, run,
                 prevStatus, gen, locals, modes, counters, status, branch,
                 promptUserCalls, promptConflictCalls, updateCalls, writes,
                 lastUpdate>>


\* this.request throws (network error or !response.ok): the generator
\* rethrows into the for-await loop, which has no catch
RequestPageFails ==
  /\ pc = "next"
  /\ \/ ~fetched
     \/ idx > Len(results) /\ Len(results) # 0 /\ ~(Len(results) < pageSize)
  /\ requests' = requests + 1
  /\ Fatal("TransportError:getAllQueries")
  /\ UNCHANGED <<bench,
                 boot, outcome, prevOutcome, response, line, disk, remote, run,
                 prevStatus, gen, locals, modes, counters, status, branch,
                 promptUserCalls, promptConflictCalls, updateCalls, writes,
                 lastUpdate>>

\* the generator returns: empty page, or a short page fully yielded
StreamEnd ==
  /\ pc = "next"
  /\ fetched
  /\ idx > Len(results)
  /\ Len(results) = 0 \/ Len(results) < pageSize
  /\ pc' = "summary"
  /\ UNCHANGED <<bench,
                 boot, exit, outcome, prevOutcome, response, line, disk, remote,
                 run, prevStatus, gen, locals, modes, counters, status,
                 branch, ghosts>>

\* ---------------------------------------------------- downloadQueries
\* Classify with the second test reduced to `cachedHash !== remoteHash`
ClassifyRemoteFirst(lh, ch, rh) ==
  IF lh = ch /\ ch = rh THEN "unchanged"
  ELSE IF ch # rh THEN "remote_updated"
  ELSE IF ch = rh /\ lh # ch THEN "local_modified"
  ELSE "conflict"

\* Classify without the all-equal test: a matching local copy is pulled again
ClassifyNoSkip(lh, ch, rh) ==
  IF lh = ch THEN "remote_updated"
  ELSE IF ch = rh /\ lh # ch THEN "local_modified"
  ELSE "conflict"

\* The three-way comparison chain of the loop body
Classify(lh, ch, rh) ==
  IF lh = ch /\ ch = rh THEN "unchanged"
  ELSE IF lh = ch /\ ch # rh THEN "remote_updated"
  ELSE IF ch = rh /\ lh # ch THEN "local_modified"
  ELSE "conflict"

\* saveQuery that writes query.json only and leaves query.sql as it was
saveQueryMetadataOnly(queryId, sqlContent, metadata) ==
  /\ sqlFile' = sqlFile
  /\ jsonFile' = [jsonFile EXCEPT ![queryId] = metadata]
  /\ writes' = writes + 1

\* saveQuery(queryId, sqlContent, metadata)
saveQuery(queryId, sqlContent, metadata) ==
  /\ sqlFile' = [sqlFile EXCEPT ![queryId] = sqlContent]
  /\ jsonFile' = [jsonFile EXCEPT ![queryId] = metadata]
  /\ writes' = writes + 1

\* saveQuery rejects: mkdir or the write of query.sql fails and nothing is
\* written, or query.sql is written and the write of query.json fails
WriteStages == {"sql", "json"}

saveQueryRejects(queryId, sqlContent, stage) ==
  /\ sqlFile' = IF stage = "json"
                THEN [sqlFile EXCEPT ![queryId] = sqlContent]
                ELSE sqlFile
  /\ jsonFile' = jsonFile
  /\ writes' = writes

\* how the processing of a record ends when saveQuery rejects outside a try
Unsaved(stage, label) ==
  IF stage = "json" THEN "write_interrupted" ELSE label

\* the line logged when the processing of record q ends
Ends(q, label) == outcome' = [outcome EXCEPT ![q.id] = label]

\* `continue`: the per-record locals go out of scope
Continue ==
  /\ pc' = "next"
  /\ localSqlContent' = Null /\ localHash' = Null
  /\ cachedHash' = Null /\ remoteHash' = Null

\* CanTake where the next record is taken while an update is awaited
CanTakeWhileUpdating ==
  pc \in {"next", "upload", "conflictUpload"} /\ fetched /\ idx <= Len(results)

\* a record can be taken from the generator's current page
CanTake == pc = "next" /\ fetched /\ idx <= Len(results)

\* for await (const query of ...) { total++; ... }
Take ==
  /\ query' = results[idx]
  /\ idx' = idx + 1
  /\ total' = total + 1
  /\ response' = None
  /\ line' = Null
  /\ UNCHANGED <<page, results, fetched, remote, run, prevStatus, status>>

\* the branch the loop body takes for the record at the head of the stream
BranchOf(q) ==
  IF readQueryMetadata(q.id) = NullObject THEN "new"
  ELSE Classify(LocalHashOf(readQuerySql(q.id)),
                readQueryMetadata(q.id).hash, hashQuery(q))

\* if (!existingMetadata) { downloaded++; saveQuery(...); continue }
ProcessNew ==
  /\ CanTake
  /\ BranchOf(results[idx]) = "new"
  /\ Take
  /\ branch' = "new"
  /\ downloaded' = downloaded + 1
  /\ LET q == results[idx]
     IN saveQuery(q.id, OrEmpty(q.query), buildMetadata(q, hashQuery(q)))
  /\ Continue
  /\ Ends(results[idx], "new")
  /\ UNCHANGED <<bench, boot, exit, prevOutcome,
                 modes, skipped, updatedFromRemote, updatedToRemote, conflicts,
                 requests, promptUserCalls, promptConflictCalls, updateCalls,
                 lastUpdate>>

\* New branch, saveQuery rejects: nothing catches it inside the loop
ProcessNewWriteFails ==
  /\ CanTake
  /\ BranchOf(results[idx]) = "new"
  /\ Take
  /\ branch' = "new"
  /\ downloaded' = downloaded + 1
  /\ \E stage \in WriteStages :
       /\ saveQueryRejects(results[idx].id, OrEmpty(results[idx].query), stage)
       /\ Ends(results[idx], Unsaved(stage, "write_failed"))
  /\ Fatal("IOFailure:saveQuery")
  /\ UNCHANGED <<bench,
                 boot, prevOutcome, localSqlContent, localHash, cachedHash,
                 remoteHash, modes, skipped, updatedFromRemote,
                 updatedToRemote, conflicts, requests, promptUserCalls,
                 promptConflictCalls, updateCalls, lastUpdate>>

\* localHash === cachedHash && cachedHash === remoteHash: skipped++
ProcessUnchanged ==
  /\ CanTake
  /\ BranchOf(results[idx]) = "unchanged"
  /\ Take
  /\ branch' = "unchanged"
  /\ skipped' = skipped + 1
  /\ Continue
  /\ Ends(results[idx], "unchanged")
  /\ UNCHANGED <<bench, boot, exit, prevOutcome,
                 disk, modes, downloaded, updatedFromRemote, updatedToRemote,
                 conflicts, ghosts>>

\* localHash === cachedHash && cachedHash !== remoteHash: pull the remote
ProcessRemoteUpdated ==
  /\ CanTake
  /\ BranchOf(results[idx]) = "remote_updated"
  /\ Take
  /\ branch' = "remote_updated"
  /\ updatedFromRemote' = updatedFromRemote + 1
  /\ LET q == results[idx]
     IN saveQuery(q.id, OrEmpty(q.query), buildMetadata(q, hashQuery(q)))
  /\ Continue
  /\ Ends(results[idx], "pulled")
  /\ UNCHANGED <<bench, boot, exit, prevOutcome,
                 modes, downloaded, skipped, updatedToRemote, conflicts,
                 requests, promptUserCalls, promptConflictCalls, updateCalls,
                 lastUpdate>>

\* Remote Updated branch, saveQuery rejects: nothing catches it
ProcessRemoteUpdatedWriteFails ==
  /\ CanTake
  /\ BranchOf(results[idx]) = "remote_updated"
  /\ Take
  /\ branch' = "remote_updated"
  /\ updatedFromRemote' = updatedFromRemote + 1
  /\ \E stage \in WriteStages :
       /\ saveQueryRejects(results[idx].id, OrEmpty(results[idx].query), stage)
       /\ Ends(results[idx], Unsaved(stage, "write_failed"))
  /\ Fatal("IOFailure:saveQuery")
  /\ localSqlContent' = readQuerySql(results[idx].id)
  /\ localHash' = LocalHashOf(readQuerySql(results[idx].id))
  /\ cachedHash' = readQueryMetadata(results[idx].id).hash
  /\ remoteHash' = hashQuery(results[idx])
  /\ UNCHANGED <<bench, boot, prevOutcome, modes, downloaded, skipped,
                 updatedToRemote, conflicts, requests, promptUserCalls,
                 promptConflictCalls, updateCalls, lastUpdate>>

\* the per-record locals as read for a record that has metadata
SetLocals(q) ==
  /\ localSqlContent' = readQuerySql(q.id)
  /\ localHash' = LocalHashOf(readQuerySql(q.id))
  /\ cachedHash' = readQueryMetadata(q.id).hash
  /\ remoteHash' = hashQuery(q)

\* the words the prompts compare the normalised answer with
WordYes == <<"y", "e", "s">>
WordSkip == <<"s", "k", "i", "p">>
WordYesAll == <<"y", "e", "s", "-", "a", "l", "l">>
WordSkipAll == <<"s", "k", "i", "p", "-", "a", "l", "l">>
WordQuit == <<"q", "u", "i", "t">>
WordLocal == <<"l", "o", "c", "a", "l">>
WordRemote == <<"r", "e", "m", "o", "t", "e">>
WordLocalAll == <<"l", "o", "c", "a", "l", "-", "a", "l", "l">>
WordRemoteAll == <<"r", "e", "m", "o", "t", "e", "-", "a", "l", "l">>
\* the words the README documents for declining
WordNo == <<"n", "o">>
WordNoAll == <<"n", "o", "-", "a", "l", "l">>

UpperCase == <<"A", "B", "C", "D", "E", "F", "G", "H", "I", "J", "K", "L", "M",
               "N", "O", "P", "Q", "R", "S", "T", "U", "V", "W", "X", "Y", "Z">>
LowerCase == <<"a", "b", "c", "d", "e", "f", "g", "h", "i", "j", "k", "l", "m",
               "n", "o", "p", "q", "r", "s", "t", "u", "v", "w", "x", "y", "z">>

\* toLowerCase that leaves every character as it is
toLowerCaseIdentity(str) == str

\* String.prototype.toLowerCase, on the letters A-Z
toLowerCase(str) ==
  [i \in 1..Len(str) |->
     IF \E k \in 1..26 : UpperCase[k] = str[i]
     THEN LowerCase[CHOOSE k \in 1..26 : UpperCase[k] = str[i]]
     ELSE str[i]]

RECURSIVE trimStart(_)
trimStart(str) ==
  IF Len(str) > 0 /\ str[1] \in Whitespace
  THEN trimStart(SubSeq(str, 2, Len(str)))
  ELSE str

\* String.prototype.trim
trim(str) == trimEnd(trimStart(str))

\* promptUser: the answer line, lower-cased and trimmed, mapped to a response
promptUser(answer) ==
  LET normalized == trim(toLowerCase(answer))
  IN IF normalized = WordYes THEN "yes"
     ELSE IF normalized = WordSkip \/ normalized = <<>> THEN "skip"
     ELSE IF normalized = WordYesAll THEN "yes-all"
     ELSE IF normalized = WordSkipAll THEN "skip-all"
     ELSE IF normalized = WordQuit THEN "quit"
     ELSE "skip"

\* promptConflict: the answer line, lower-cased and trimmed, mapped to a response
promptConflict(answer) ==
  LET normalized == trim(toLowerCase(answer))
  IN IF normalized = WordLocal THEN "local"
     ELSE IF normalized = WordRemote THEN "remote"
     ELSE IF normalized = WordSkip \/ normalized = <<>> THEN "skip"
     ELSE IF normalized = WordLocalAll THEN "local-all"
     ELSE IF normalized = WordRemoteAll THEN "remote-all"
     ELSE "skip"

\* answer lines typed at the prompts: the words each prompt knows, and one
\* line it does not know (the empty line, the word quit)
UploadAnswers == {WordYes, WordSkip, <<>>, WordYesAll, WordSkipAll, WordQuit}
ConflictAnswers == {WordLocal, WordRemote, WordSkip, WordLocalAll,
                    WordRemoteAll, WordQuit}

\* UploadOrDecline that sends whatever was read, an absent or empty body too
UploadOrDeclineSendsEmpty(q, lsc, shouldUpload) ==
  IF shouldUpload
  THEN /\ pc' = "upload"
       /\ SetLocals(q)
       /\ UNCHANGED <<skipped, outcome>>
  ELSE /\ skipped' = skipped + 1
       /\ Continue
       /\ Ends(q, "declined")

\* UploadOrDecline that does not look at the answer
UploadOrDeclineIgnoresAnswer(q, lsc, shouldUpload) ==
  IF Truthy(lsc)
  THEN /\ pc' = "upload"
       /\ SetLocals(q)
       /\ UNCHANGED <<skipped, outcome>>
  ELSE /\ skipped' = skipped + 1
       /\ Continue
       /\ Ends(q, "declined")

\* if (shouldUpload && localSqlContent) { updateQuery ... } else { skipped++ }
\* for record q whose local body was read as lsc
UploadOrDecline(q, lsc, shouldUpload) ==
  IF shouldUpload /\ Truthy(lsc)
  THEN /\ pc' = "upload"
       /\ SetLocals(q)
       /\ UNCHANGED <<skipped, outcome>>
  ELSE /\ skipped' = skipped + 1
       /\ Continue
       /\ Ends(q, "declined")

\* LocalModifiedAuto with the two latched modes swapped
LocalModifiedAutoSwapped ==
  /\ CanTake
  /\ BranchOf(results[idx]) = "local_modified"
  /\ batchMode = "yes-all" \/ batchMode = "skip-all" \/ userQuit
  /\ Take
  /\ branch' = "local_modified"
  /\ UploadOrDecline(results[idx], readQuerySql(results[idx].id),
                     batchMode = "skip-all")
  /\ UNCHANGED <<bench, boot, exit, prevOutcome,
                 disk, modes, downloaded, updatedFromRemote, updatedToRemote,
                 conflicts, ghosts>>

\* the batch slot of the Local Modified branch decides without a prompt
LocalModifiedAuto ==
  /\ CanTake
  /\ BranchOf(results[idx]) = "local_modified"
  /\ batchMode = "yes-all" \/ batchMode = "skip-all" \/ userQuit
  /\ Take
  /\ branch' = "local_modified"
  /\ UploadOrDecline(results[idx], readQuerySql(results[idx].id),
                     batchMode = "yes-all")
  /\ UNCHANGED <<bench, boot, exit, prevOutcome,
                 disk, modes, downloaded, updatedFromRemote, updatedToRemote,
                 conflicts, ghosts>>

\* what the machine offers to showDiff: os.tmpdir() is writable, `git
\* --version` runs and exits with 0, `diff` can be spawned
DiffTools == [tmpWritable : BOOLEAN, gitRuns : BOOLEAN, diffSpawns : BOOLEAN]

\* showDiff(localContent, remoteContent, label): how the call ends.
\* writeFile rejects: the catch prints `[DIFF] Could not generate diff`.
\* Otherwise the command is 'git' when the test spawn closed with code 0 and
\* 'diff' when it closed otherwise or emitted 'error'; the command is spawned
\* with listeners for stdout, stderr and 'close' only, so a failed spawn emits
\* an 'error' nothing listens to.
showDiff(tools) ==
  IF ~tools.tmpWritable THEN "message"
  ELSE IF tools.gitRuns THEN "rendered"
  ELSE IF tools.diffSpawns THEN "rendered"
  ELSE "uncaught"

\* if (localSqlContent) await showDiff(...): the call returns, or is not made
DiffReturns(lsc) ==
  ~Truthy(lsc) \/ \E tools \in DiffTools : showDiff(tools) # "uncaught"

\* same branch with no batch mode: showDiff is called and the spawn of the
\* diff command fails
ShowDiffSpawnFails ==
  /\ CanTake
  /\ BranchOf(results[idx]) = "local_modified"
  /\ ~(batchMode = "yes-all") /\ ~(batchMode = "skip-all") /\ ~userQuit
  /\ Truthy(readQuerySql(results[idx].id))
  /\ \E tools \in DiffTools : showDiff(tools) = "uncaught"
  /\ Take
  /\ branch' = "local_modified"
  /\ SetLocals(results[idx])
  /\ Uncaught("UnhandledError:spawn")
  /\ UNCHANGED <<bench, boot, outcome, prevOutcome,
                 disk, modes, downloaded, skipped, updatedFromRemote,
                 updatedToRemote, conflicts, ghosts>>

\* same branch with no batch mode: showDiff, then promptUser is asked
LocalModifiedAsk ==
  /\ CanTake
  /\ BranchOf(results[idx]) = "local_modified"
  /\ ~(batchMode = "yes-all") /\ ~(batchMode = "skip-all") /\ ~userQuit
  /\ DiffReturns(readQuerySql(results[idx].id))
  /\ Take
  /\ branch' = "local_modified"
  /\ SetLocals(results[idx])
  /\ pc' = "promptUser"
  /\ UNCHANGED <<bench, boot, exit, outcome, prevOutcome,
                 disk, modes, downloaded, skipped, updatedFromRemote,
                 updatedToRemote, conflicts, ghosts>>

\* AnswerUpload with one batch slot shared by both prompts
AnswerUploadSharedSlot ==
  /\ pc = "promptUser"
  /\ promptUserCalls' = promptUserCalls + 1
  /\ \E answer \in UploadAnswers :
       LET resp == promptUser(answer)
       IN /\ response' = resp
          /\ line' = answer
          /\ IF resp = "quit"
             THEN /\ userQuit' = TRUE
                  /\ Ends(query, "aborted")
                  /\ pc' = "summary"
                  /\ UNCHANGED <<batchMode, conflictBatchMode, skipped,
                                 localSqlContent, localHash, cachedHash,
                                 remoteHash>>
             ELSE /\ batchMode' = IF resp = "yes-all" THEN "yes-all"
                                  ELSE IF resp = "skip-all" THEN "skip-all"
                                  ELSE batchMode
                  /\ conflictBatchMode' = IF resp = "yes-all" THEN "local-all"
                                          ELSE conflictBatchMode
                  /\ UploadOrDecline(query, localSqlContent,
                                     resp = "yes-all" \/ resp = "yes")
                  /\ UNCHANGED userQuit
  /\ UNCHANGED <<bench, boot, exit, prevOutcome,
                 disk, remote, run, prevStatus, gen, query,
                 downloaded, updatedFromRemote, updatedToRemote, conflicts,
                 total, status, branch, requests, promptConflictCalls,
                 updateCalls, writes, lastUpdate>>

\* AnswerUpload where quit sets userQuit but the loop is not left
AnswerUploadNoBreak ==
  /\ pc = "promptUser"
  /\ promptUserCalls' = promptUserCalls + 1
  /\ \E answer \in UploadAnswers :
       LET resp == promptUser(answer)
       IN /\ response' = resp
          /\ line' = answer
          /\ IF resp = "quit"
             THEN /\ userQuit' = TRUE
                  /\ Ends(query, "aborted")
                  /\ Continue
                  /\ UNCHANGED <<batchMode, skipped>>
             ELSE /\ batchMode' = IF resp = "yes-all" THEN "yes-all"
                                  ELSE IF resp = "skip-all" THEN "skip-all"
                                  ELSE batchMode
                  /\ UploadOrDecline(query, localSqlContent,
                                     resp = "yes-all" \/ resp = "yes")
                  /\ UNCHANGED userQuit
  /\ UNCHANGED <<bench, boot, exit, prevOutcome,
                 disk, remote, run, prevStatus, gen, query, conflictBatchMode,
                 downloaded, updatedFromRemote, updatedToRemote, conflicts,
                 total, status, branch, requests, promptConflictCalls,
                 updateCalls, writes, lastUpdate>>

\* const response = await promptUser(...): the answer, one of the lines
\* `answers`, arrives
AnswerUploadWith(answers) ==
  /\ pc = "promptUser"
  /\ promptUserCalls' = promptUserCalls + 1
  /\ \E answer \in answers :
       LET resp == promptUser(answer)
       IN /\ response' = resp
          /\ line' = answer
          /\ IF resp = "quit"
             THEN /\ userQuit' = TRUE
                  /\ Ends(query, "aborted")
                  /\ pc' = "summary"      \* break
                  /\ UNCHANGED <<batchMode, skipped, localSqlContent,
                                 localHash, cachedHash, remoteHash>>
             ELSE /\ batchMode' = IF resp = "yes-all" THEN "yes-all"
                                  ELSE IF resp = "skip-all" THEN "skip-all"
                                  ELSE batchMode
                  /\ UploadOrDecline(query, localSqlContent,
                                     resp = "yes-all" \/ resp = "yes")
                  /\ UNCHANGED userQuit
  /\ UNCHANGED <<bench, boot, exit, prevOutcome,
                 disk, remote, run, prevStatus, gen, query, conflictBatchMode,
                 downloaded, updatedFromRemote, updatedToRemote, conflicts,
                 total, status, branch, requests, promptConflictCalls,
                 updateCalls, writes, lastUpdate>>

AnswerUpload == AnswerUploadWith(UploadAnswers)

\* the Remote Source's record after update(id, content): the stored body
\* as sent, or as normalised by the server
ServerReturns(content) == {content, trimEnd(content)}

\* UploadSucceedsWith that stores the body of the streamed record
UploadSucceedsStoresRemote(bodies) ==
  /\ pc = "upload"
  /\ \E body \in bodies :
       LET updatedQuery == [id |-> query.id, query |-> body]
       IN /\ remote' = [remote EXCEPT ![query.id] = updatedQuery]
          /\ saveQuery(query.id, OrEmpty(query.query),
                       buildMetadata(updatedQuery, hashQuery(updatedQuery)))
  /\ updateCalls' = updateCalls + 1
  /\ lastUpdate' = [id |-> query.id, body |-> localSqlContent, ok |-> TRUE]
  /\ updatedToRemote' = updatedToRemote + 1
  /\ Continue
  /\ Ends(query, "pushed")
  /\ UNCHANGED <<bench,
                 boot, exit, prevOutcome, response, line, run, prevStatus, gen,
                 query, modes, downloaded, skipped, updatedFromRemote,
                 conflicts, total, status, branch, requests, promptUserCalls,
                 promptConflictCalls>>

\* try { updatedQuery = await client.updateQuery(...); saveQuery(...);
\*       updatedToRemote++ }   where the returned record holds one of `bodies`
UploadSucceedsWith(bodies) ==
  /\ pc = "upload"
  /\ \E body \in bodies :
       LET updatedQuery == [id |-> query.id, query |-> body]
       IN /\ remote' = [remote EXCEPT ![query.id] = updatedQuery]
          /\ saveQuery(query.id, localSqlContent,
                       buildMetadata(updatedQuery, hashQuery(updatedQuery)))
  /\ updateCalls' = updateCalls + 1
  /\ lastUpdate' = [id |-> query.id, body |-> localSqlContent, ok |-> TRUE]
  /\ updatedToRemote' = updatedToRemote + 1
  /\ Continue
  /\ Ends(query, "pushed")
  /\ UNCHANGED <<bench,
                 boot, exit, prevOutcome, response, line, run, prevStatus, gen,
                 query, modes, downloaded, skipped, updatedFromRemote,
                 conflicts, total, status, branch, requests, promptUserCalls,
                 promptConflictCalls>>

UploadSucceeds == UploadSucceedsWith(ServerReturns(localSqlContent))

\* updateQuery returned and saveQuery, inside the same try, rejects: the
\* catch logs `[ERROR] Failed to upload ...` and the loop goes on
UploadSaveFails ==
  /\ pc = "upload"
  /\ \E body \in ServerReturns(localSqlContent) :
       remote' = [remote EXCEPT ![query.id] = [id |-> query.id, query |-> body]]
  /\ \E stage \in WriteStages :
       saveQueryRejects(query.id, localSqlContent, stage)
  /\ Ends(query, "push_unsaved")
  /\ updateCalls' = updateCalls + 1
  /\ lastUpdate' = [id |-> query.id, body |-> localSqlContent, ok |-> TRUE]
  /\ Continue
  /\ Caught("IOFailure:saveQuery")
  /\ UNCHANGED <<bench,
                 boot, prevOutcome, response, line, run, prevStatus, gen, query,
                 modes, counters, status, branch, requests, promptUserCalls,
                 promptConflictCalls>>

\* UploadFails with no try/catch around updateQuery: the error ends the run
UploadFailsFatal ==
  /\ pc = "upload"
  /\ updateCalls' = updateCalls + 1
  /\ lastUpdate' = [id |-> query.id, body |-> localSqlContent, ok |-> FALSE]
  /\ pc' = "failed"
  /\ UNCHANGED <<localSqlContent, localHash, cachedHash, remoteHash>>
  /\ errorsThrown' = Append(errorsThrown, "TransportError:updateQuery")
  /\ exitCode' = 1
  /\ Ends(query, "push_failed")
  /\ UNCHANGED <<bench,
                 boot, prevOutcome, response, line, disk, remote, run, prevStatus,
                 gen, query, modes, counters, status, branch, requests,
                 promptUserCalls, promptConflictCalls, writes>>


\* catch (error) { console.error(`[ERROR] Failed to upload ...`) }
UploadFails ==
  /\ pc = "upload"
  /\ updateCalls' = updateCalls + 1
  /\ lastUpdate' = [id |-> query.id, body |-> localSqlContent, ok |-> FALSE]
  /\ Continue
  /\ Caught("TransportError:updateQuery")
  /\ Ends(query, "push_failed")
  /\ UNCHANGED <<bench,
                 boot, prevOutcome, response, line, disk, remote, run, prevStatus,
                 gen, query, modes, counters, status, branch, requests,
                 promptUserCalls, promptConflictCalls, writes>>

\* Resolve where a skip stores the remote fingerprint in the metadata
ResolveSkipUpdatesMetadata(q, lsc, resolution) ==
  IF resolution = "local" /\ Truthy(lsc)
  THEN /\ pc' = "conflictUpload"
       /\ SetLocals(q)
       /\ UNCHANGED <<disk, writes, updatedFromRemote, conflicts, exit,
                      outcome>>
  ELSE IF resolution = "remote"
  THEN \/ /\ saveQuery(q.id, OrEmpty(q.query),
                       buildMetadata(q, hashQuery(q)))
          /\ updatedFromRemote' = updatedFromRemote + 1
          /\ Continue
          /\ Ends(q, "took_remote")
          /\ UNCHANGED <<conflicts, exit>>
       \/ /\ \E stage \in WriteStages :   \* no catch here
               /\ saveQueryRejects(q.id, OrEmpty(q.query), stage)
               /\ Ends(q, Unsaved(stage, "write_failed"))
          /\ Fatal("IOFailure:saveQuery")
          /\ SetLocals(q)
          /\ UNCHANGED <<conflicts, updatedFromRemote>>
  ELSE /\ conflicts' = conflicts + 1
       /\ Continue
       /\ Ends(q, "conflict_skipped")
       /\ sqlFile' = sqlFile
       /\ jsonFile' = [jsonFile EXCEPT ![q.id] = buildMetadata(q, hashQuery(q))]
       /\ writes' = writes + 1
       /\ UNCHANGED <<updatedFromRemote, exit>>


\* Resolve where a record resolved as remote is also counted a conflict
ResolveRemoteCountsConflict(q, lsc, resolution) ==
  IF resolution = "local" /\ Truthy(lsc)
  THEN /\ pc' = "conflictUpload"
       /\ SetLocals(q)
       /\ UNCHANGED <<disk, writes, updatedFromRemote, conflicts, exit,
                      outcome>>
  ELSE IF resolution = "remote"
  THEN \/ /\ saveQuery(q.id, OrEmpty(q.query),
                       buildMetadata(q, hashQuery(q)))
          /\ updatedFromRemote' = updatedFromRemote + 1
          /\ Continue
          /\ Ends(q, "took_remote")
          /\ conflicts' = conflicts + 1
          /\ UNCHANGED exit
       \/ /\ \E stage \in WriteStages :   \* no catch here
               /\ saveQueryRejects(q.id, OrEmpty(q.query), stage)
               /\ Ends(q, Unsaved(stage, "write_failed"))
          /\ Fatal("IOFailure:saveQuery")
          /\ SetLocals(q)
          /\ UNCHANGED <<conflicts, updatedFromRemote>>
  ELSE /\ conflicts' = conflicts + 1
       /\ Continue
       /\ Ends(q, "conflict_skipped")
       /\ UNCHANGED <<disk, writes, updatedFromRemote, exit>>


\* if (resolution === 'local' && localSqlContent) ... else if (resolution ===
\* 'remote') ... else ...   for record q whose local body was read as lsc
Resolve(q, lsc, resolution) ==
  IF resolution = "local" /\ Truthy(lsc)
  THEN /\ pc' = "conflictUpload"
       /\ SetLocals(q)
       /\ UNCHANGED <<disk, writes, updatedFromRemote, conflicts, exit,
                      outcome>>
  ELSE IF resolution = "remote"
  THEN \/ /\ saveQuery(q.id, OrEmpty(q.query),
                       buildMetadata(q, hashQuery(q)))
          /\ updatedFromRemote' = updatedFromRemote + 1
          /\ Continue
          /\ Ends(q, "took_remote")
          /\ UNCHANGED <<conflicts, exit>>
       \/ /\ \E stage \in WriteStages :   \* no catch here
               /\ saveQueryRejects(q.id, OrEmpty(q.query), stage)
               /\ Ends(q, Unsaved(stage, "write_failed"))
          /\ Fatal("IOFailure:saveQuery")
          /\ SetLocals(q)
          /\ UNCHANGED <<conflicts, updatedFromRemote>>
  ELSE /\ conflicts' = conflicts + 1
       /\ Continue
       /\ Ends(q, "conflict_skipped")
       /\ UNCHANGED <<disk, writes, updatedFromRemote, exit>>

\* ConflictAuto with the two latched modes swapped
ConflictAutoSwapped ==
  /\ CanTake
  /\ BranchOf(results[idx]) = "conflict"
  /\ conflictBatchMode = "local-all" \/ conflictBatchMode = "remote-all"
       \/ userQuit
  /\ Take
  /\ branch' = "conflict"
  /\ Resolve(results[idx], readQuerySql(results[idx].id),
             IF conflictBatchMode = "local-all" THEN "remote"
             ELSE IF conflictBatchMode = "remote-all" THEN "local"
             ELSE "skip")
  /\ UNCHANGED <<bench, boot, prevOutcome, modes, downloaded, skipped,
                 updatedToRemote, requests, promptUserCalls,
                 promptConflictCalls, updateCalls, lastUpdate>>

\* else branch of the comparison chain, conflict batch slot latched (or
\* userQuit set): no prompt
ConflictAuto ==
  /\ CanTake
  /\ BranchOf(results[idx]) = "conflict"
  /\ conflictBatchMode = "local-all" \/ conflictBatchMode = "remote-all"
       \/ userQuit
  /\ Take
  /\ branch' = "conflict"
  /\ Resolve(results[idx], readQuerySql(results[idx].id),
             IF conflictBatchMode = "local-all" THEN "local"
             ELSE IF conflictBatchMode = "remote-all" THEN "remote"
             ELSE "skip")
  /\ UNCHANGED <<bench, boot, prevOutcome, modes, downloaded, skipped,
                 updatedToRemote, requests, promptUserCalls,
                 promptConflictCalls, updateCalls, lastUpdate>>

\* else branch with no conflict batch mode: promptConflict is asked
ConflictAsk ==
  /\ CanTake
  /\ BranchOf(results[idx]) = "conflict"
  /\ ~(conflictBatchMode = "local-all") /\ ~(conflictBatchMode = "remote-all")
  /\ ~userQuit
  /\ Take
  /\ branch' = "conflict"
  /\ SetLocals(results[idx])
  /\ pc' = "promptConflict"
  /\ UNCHANGED <<bench, boot, exit, outcome, prevOutcome,
                 disk, modes, downloaded, skipped, updatedFromRemote,
                 updatedToRemote, conflicts, ghosts>>

\* const response = await promptConflict(...): the answer, one of the lines
\* `answers`, arrives
AnswerConflictWith(answers) ==
  /\ pc = "promptConflict"
  /\ promptConflictCalls' = promptConflictCalls + 1
  /\ \E answer \in answers :
       LET resp == promptConflict(answer)
       IN /\ response' = resp
          /\ line' = answer
          /\ conflictBatchMode' =
               IF resp = "local-all" THEN "local-all"
               ELSE IF resp = "remote-all" THEN "remote-all"
               ELSE conflictBatchMode
          /\ Resolve(query, localSqlContent,
                     IF resp = "local-all" THEN "local"
                     ELSE IF resp = "remote-all" THEN "remote"
                     ELSE resp)
  /\ UNCHANGED <<bench, boot, prevOutcome,
                 remote, run, prevStatus, gen, query, batchMode, userQuit,
                 downloaded, skipped, updatedToRemote, total, status, branch,
                 requests, promptUserCalls, updateCalls, lastUpdate>>

AnswerConflict == AnswerConflictWith(ConflictAnswers)

\* conflict path: updateQuery returned; saveQuery(...); updatedToRemote++
\* where the returned record holds one of `bodies`
ConflictUploadSucceedsWith(bodies) ==
  /\ pc = "conflictUpload"
  /\ \E body \in bodies :
       LET updatedQuery == [id |-> query.id, query |-> body]
       IN /\ remote' = [remote EXCEPT ![query.id] = updatedQuery]
          /\ saveQuery(query.id, localSqlContent,
                       buildMetadata(updatedQuery, hashQuery(updatedQuery)))
  /\ updateCalls' = updateCalls + 1
  /\ lastUpdate' = [id |-> query.id, body |-> localSqlContent, ok |-> TRUE]
  /\ updatedToRemote' = updatedToRemote + 1
  /\ Continue
  /\ Ends(query, "pushed")
  /\ UNCHANGED <<bench,
                 boot, exit, prevOutcome, response, line, run, prevStatus, gen,
                 query, modes, downloaded, skipped, updatedFromRemote,
                 conflicts, total, status, branch, requests, promptUserCalls,
                 promptConflictCalls>>

ConflictUploadSucceeds ==
  ConflictUploadSucceedsWith(ServerReturns(localSqlContent))

\* conflict path: updateQuery returned and saveQuery, inside the same try,
\* rejects: the catch logs the error and counts a conflict
ConflictUploadSaveFails ==
  /\ pc = "conflictUpload"
  /\ \E body \in ServerReturns(localSqlContent) :
       remote' = [remote EXCEPT ![query.id] = [id |-> query.id, query |-> body]]
  /\ \E stage \in WriteStages :
       saveQueryRejects(query.id, localSqlContent, stage)
  /\ Ends(query, "push_unsaved")
  /\ updateCalls' = updateCalls + 1
  /\ lastUpdate' = [id |-> query.id, body |-> localSqlContent, ok |-> TRUE]
  /\ conflicts' = conflicts + 1
  /\ Continue
  /\ Caught("IOFailure:saveQuery")
  /\ UNCHANGED <<bench,
                 boot, prevOutcome, response, line, run, prevStatus, gen, query,
                 modes, downloaded, skipped, updatedFromRemote,
                 updatedToRemote, total, status, branch, requests,
                 promptUserCalls, promptConflictCalls>>

\* conflict path: catch (error) { console.error(...); conflicts++ }
ConflictUploadFails ==
  /\ pc = "conflictUpload"
  /\ updateCalls' = updateCalls + 1
  /\ lastUpdate' = [id |-> query.id, body |-> localSqlContent, ok |-> FALSE]
  /\ conflicts' = conflicts + 1
  /\ Continue
  /\ Caught("TransportError:updateQuery")
  /\ Ends(query, "push_failed")
  /\ UNCHANGED <<bench,
                 boot, prevOutcome, response, line, disk, remote, run, prevStatus,
                 gen, query, modes, downloaded, skipped, updatedFromRemote,
                 updatedToRemote, total, status, branch, requests,
                 promptUserCalls, promptConflictCalls, writes>>

\* PrintSummary with a non-zero exit code after a caught error or a conflict
PrintSummaryFailsOnErrors ==
  /\ pc = "summary"
  /\ status' = IF userQuit THEN "Sync interrupted" ELSE "Sync complete"
  /\ pc' = "done"
  /\ exitCode' = IF errorsThrown # <<>> \/ conflicts > 0 THEN 1 ELSE 0
  /\ UNCHANGED <<bench,
                 boot, errorsThrown, outcome, prevOutcome, response, line, disk,
                 remote, run, prevStatus, gen, locals, modes, counters,
                 branch, ghosts>>

\* const status = userQuit ? 'Sync interrupted' : 'Sync complete'; console.log
PrintSummary ==
  /\ pc = "summary"
  /\ status' = IF userQuit THEN "Sync interrupted" ELSE "Sync complete"
  /\ pc' = "done"
  /\ exitCode' = 0                  \* main returns
  /\ UNCHANGED <<bench,
                 boot, errorsThrown, outcome, prevOutcome, response, line, disk,
                 remote, run, prevStatus, gen, locals, modes, counters,
                 branch, ghosts>>

\* one run of downloadQueries
Next ==
  \/ Startup
  \/ StartupFails
  \/ RequestPage
  \/ RequestPageFails
  \/ StreamEnd
  \/ ProcessNew
  \/ ProcessNewWriteFails
  \/ ProcessUnchanged
  \/ ProcessRemoteUpdated
  \/ ProcessRemoteUpdatedWriteFails
  \/ LocalModifiedAuto
  \/ ShowDiffSpawnFails
  \/ LocalModifiedAsk
  \/ AnswerUpload
  \/ UploadSucceeds
  \/ UploadSaveFails
  \/ UploadFails
  \/ ConflictAuto
  \/ ConflictAsk
  \/ AnswerConflict
  \/ ConflictUploadSucceeds
  \/ ConflictUploadSaveFails
  \/ ConflictUploadFails
  \/ PrintSummary

Spec == Init /\ [][Next]_vars

\* The command is run again with no change to the Remote Source or to the
\* local files in between; `kept` are the outcomes remembered from the run
\* that ended
NewRun(kept) ==
  /\ run < MaxRuns
  /\ run' = run + 1
  /\ prevStatus' = status
  /\ pc' = "start"
  /\ dirEnsured' = FALSE /\ exitCode' = -1 /\ errorsThrown' = <<>>
  /\ prevOutcome' = [i \in QueryIds |->
                       IF outcome[i] \in kept
                       THEN outcome[i] ELSE "none"]
  /\ outcome' = [i \in QueryIds |-> "none"]
  /\ page' = 1 /\ results' = <<>> /\ idx' = 1 /\ fetched' = FALSE
  /\ query' = NoQuery /\ localSqlContent' = Null /\ localHash' = Null
  /\ cachedHash' = Null /\ remoteHash' = Null
  /\ batchMode' = None /\ conflictBatchMode' = None /\ userQuit' = FALSE
  /\ downloaded' = 0 /\ skipped' = 0 /\ updatedFromRemote' = 0
  /\ updatedToRemote' = 0 /\ conflicts' = 0 /\ total' = 0
  /\ status' = None /\ response' = None /\ line' = Null
  /\ branch' = "none"
  /\ requests' = 0 /\ promptUserCalls' = 0 /\ promptConflictCalls' = 0
  /\ updateCalls' = 0 /\ writes' = 0 /\ lastUpdate' = NoUpdate
  /\ UNCHANGED <<bench, disk, remote, env, available>>

Rerun == pc = "done" /\ NewRun({"declined", "conflict_skipped"})

NextRuns == Next \/ Rerun

\* the mirrors the multi-run specification starts from
InitRuns ==
  /\ Init
  /\ \A i \in QueryIds :
       \/ sqlFile[i] = NoFile /\ jsonFile[i] = NoMeta
       \/ sqlFile[i] \in {<<"a", " ">>, <<"b">>} /\ jsonFile[i] # NoMeta

SpecRuns == InitRuns /\ [][NextRuns]_vars

\* ------------------------------------------------- runs after a failure
\* The command is run again after it returned or after the process died
RerunAfterFailure ==
  pc \in {"done", "failed"} /\ NewRun({"write_interrupted", "push_unsaved"})

NextCrash == Next \/ RerunAfterFailure

\* the mirrors the specification of runs after a failure starts from: every
\* record of the mirror is in the same condition
InitCrash ==
  /\ InitRuns
  /\ \A i, j \in QueryIds :
       (sqlFile[i] # NoFile /\ sqlFile[j] # NoFile) => sqlFile[i] = sqlFile[j]

SpecCrash == InitCrash /\ [][NextCrash]_vars

\* ---------------------------------------------- generateHash on its own
\* characters of the texts: a letter in both cases, a blank, a line feed
Alphabet == {"a", "A", " ", "\n"}

Texts == UNION { [1..n -> Alphabet] : n \in 0..MaxLen }

\* no run is going on; two texts are given
InitHash ==
  /\ textA \in Texts /\ textB \in Texts
  /\ hashA = Null /\ hashB = Null
  /\ available = 0
  /\ sqlFile = [i \in QueryIds |-> NoFile]
  /\ jsonFile = [i \in QueryIds |-> NoMeta]
  /\ remote = [i \in QueryIds |-> Unseen]
  /\ run = 1
  /\ prevStatus = None
  /\ prevOutcome = [i \in QueryIds |-> "none"]
  /\ env = [REDASH_URL |-> Null, REDASH_API_KEY |-> Null]
  /\ RunStart

\* generateHash is applied to both texts
Fingerprint ==
  /\ hashA = Null
  /\ hashA' = generateHash(textA)
  /\ hashB' = generateHash(textB)
  /\ UNCHANGED <<textA, textB, boot, exit, outcome, prevOutcome, response,
                 line, disk, remote, run, prevStatus, pc, gen, locals, modes,
                 counters, status, branch, ghosts>>

SpecHash == InitHash /\ [][Fingerprint]_vars

\* ------------------------------------------------- the operator's keyboard
\* String.prototype.toUpperCase, used to build the typed lines
toUpperCase(str) ==
  [i \in 1..Len(str) |->
     IF \E k \in 1..26 : LowerCase[k] = str[i]
     THEN UpperCase[CHOOSE k \in 1..26 : LowerCase[k] = str[i]]
     ELSE str[i]]

Capitalized(str) ==
  IF str = <<>> THEN str
  ELSE toUpperCase(SubSeq(str, 1, 1)) \o SubSeq(str, 2, Len(str))

\* words an operator may type: the ones a prompt knows, the documented
\* ones, and others
TypedWords ==
  { WordYes, WordSkip, WordYesAll, WordSkipAll, WordQuit, WordLocal,
    WordRemote, WordLocalAll, WordRemoteAll, WordNo, WordNoAll, <<>>,
    <<"y">>, <<"y", "e", "s", "s">>, <<"y", "e", " ", "s">>,
    <<"y", "e", "s", " ", "a", "l", "l">>, <<"a", "b", "o", "r", "t">> }

\* blanks a terminal line may carry around the word
LeadingBlanks == { <<>>, <<" ">> }
TrailingBlanks == { <<>>, <<"\t">>, <<" ", " ">> }

\* the lines readline may hand to a prompt
Lines ==
  { pre \o typed \o post :
      pre \in LeadingBlanks, post \in TrailingBlanks,
      typed \in UNION { {w, toUpperCase(w), Capitalized(w)} : w \in TypedWords } }

TypeUploadAnswer == AnswerUploadWith(Lines)
TypeConflictAnswer == AnswerConflictWith(Lines)

\* ------------------------------------------------- the server at large
\* the record returned by update(id, content) is whatever the server stores
\* by then: the body sent, a normalised one, or any other body
ServerMayReturn(content) == ServerReturns(content) \cup RemoteBodies

UploadReturnsAnyRecord == UploadSucceedsWith(ServerMayReturn(localSqlContent))
ConflictUploadReturnsAnyRecord ==
  ConflictUploadSucceedsWith(ServerMayReturn(localSqlContent))

\* a configured run over a mirror whose every record was edited locally,
\* with an operator who may type any line at a prompt and a server that may
\* return any record from an update
InitParse ==
  /\ Init
  /\ available = NumQueries
  /\ createClient = "client"
  /\ \A i \in QueryIds : sqlFile[i] = <<"b">> /\ jsonFile[i] # NoMeta

NextParse ==
  \/ Startup
  \/ RequestPage
  \/ StreamEnd
  \/ LocalModifiedAuto
  \/ LocalModifiedAsk
  \/ TypeUploadAnswer
  \/ UploadReturnsAnyRecord
  \/ ConflictAuto
  \/ ConflictAsk
  \/ TypeConflictAnswer
  \/ ConflictUploadReturnsAnyRecord
  \/ PrintSummary

SpecParse == InitParse /\ [][NextParse]_vars

\* ------------------------------------------------------------ properties
\* a step of the loop that takes the next record from the stream
TakesRecord == CanTake /\ total' = total + 1

\* a step in which saveQuery rejects
WriteRejected ==
  /\ Len(errorsThrown') = Len(errorsThrown) + 1
  /\ errorsThrown'[Len(errorsThrown')] = "IOFailure:saveQuery"

\* a step in which the spawn inside showDiff emits an unhandled 'error'
SpawnUnhandled ==
  /\ Len(errorsThrown') = Len(errorsThrown) + 1
  /\ errorsThrown'[Len(errorsThrown')] = "UnhandledError:spawn"

\* a step in which updateQuery throws
UpdateRejected ==
  /\ Len(errorsThrown') = Len(errorsThrown) + 1
  /\ errorsThrown'[Len(errorsThrown')] = "TransportError:updateQuery"

\* a step in which a page request of getAllQueries throws
PageRejected ==
  /\ Len(errorsThrown') = Len(errorsThrown) + 1
  /\ errorsThrown'[Len(errorsThrown')] = "TransportError:getAllQueries"

\* the record at the head of the stream and its three fingerprints as the
\* loop body reads them
HeadQ == results[idx]
HeadHasMeta == jsonFile[HeadQ.id] # NoMeta
HeadL == LocalHashOf(readQuerySql(HeadQ.id))
HeadC == jsonFile[HeadQ.id].hash
HeadR == hashQuery(HeadQ)

\* the rows of the classification table
RowUnchanged(L, C, R) == L = C /\ C = R
RowRemoteUpdated(L, C, R) == L = C /\ C # R
RowLocalModified(L, C, R) == C = R /\ R # L
RowConflict(L, C, R) == L # C /\ C # R /\ L # R

RowsMatching(L, C, R) ==
  {r \in {"unchanged", "remote_updated", "local_modified", "conflict"} :
     \/ r = "unchanged" /\ RowUnchanged(L, C, R)
     \/ r = "remote_updated" /\ RowRemoteUpdated(L, C, R)
     \/ r = "local_modified" /\ RowLocalModified(L, C, R)
     \/ r = "conflict" /\ RowConflict(L, C, R)}

C2_ConflictPairwiseDistinct ==
  [][TakesRecord /\ branch' = "conflict"
       => HeadL # HeadC /\ HeadC # HeadR /\ HeadL # HeadR]_vars

\* C3: a record with no metadata is classified New whatever the remote body
\* and the local body file: no prompt, the body file holds the remote body,
\* the metadata hash is the remote fingerprint, and only the new counter
\* (and total) increases, by exactly 1. (The writes are those of a saveQuery
\* that the file system does not reject.)
C3_NewWhenNoMetadata ==
  [][TakesRecord /\ ~HeadHasMeta
       => /\ branch' = "new"
          /\ promptUserCalls' = promptUserCalls
          /\ promptConflictCalls' = promptConflictCalls
          /\ updateCalls' = updateCalls
          /\ \A i \in QueryIds \ {HeadQ.id} :
               sqlFile'[i] = sqlFile[i] /\ jsonFile'[i] = jsonFile[i]
          /\ downloaded' = downloaded + 1
          /\ UNCHANGED <<skipped, updatedFromRemote, updatedToRemote,
                         conflicts>>
          /\ ~WriteRejected
               => /\ pc' = "next"
                  /\ sqlFile'[HeadQ.id] = OrEmpty(HeadQ.query)
                  /\ jsonFile'[HeadQ.id] # NoMeta
                  /\ jsonFile'[HeadQ.id].hash
                       = generateHash(OrEmpty(HeadQ.query))
    ]_vars

\* a New record was written over a local body file that differed from the
\* remote body
C3_Witness ==
  /\ branch = "new"
  /\ downloaded = 1
  /\ total = 1
  /\ writes = 1
  /\ sqlFile[query.id] = OrEmpty(query.query)
  /\ jsonFile[query.id].hash = hashQuery(query)

\* C4: for an Unchanged record (L = C = R) nothing is written, sent or asked:
\* body file and metadata file are the same afterwards and only skipped and
\* total change.
C4_UnchangedIsNoOp ==
  [][TakesRecord /\ HeadHasMeta /\ RowUnchanged(HeadL, HeadC, HeadR)
       => /\ UNCHANGED <<sqlFile, jsonFile, remote>>
          /\ UNCHANGED <<writes, updateCalls, promptUserCalls,
                         promptConflictCalls, requests>>
          /\ pc' = "next"
          /\ skipped' = skipped + 1
          /\ total' = total + 1
          /\ UNCHANGED <<downloaded, updatedFromRemote, updatedToRemote,
                         conflicts>>
    ]_vars

\* an Unchanged record was skipped: its metadata still carries the old
\* sync time
C4_Witness ==
  /\ branch = "unchanged"
  /\ skipped >= 1
  /\ jsonFile[query.id].downloaded_at = 0
  /\ LocalHashOf(readQuerySql(query.id)) = jsonFile[query.id].hash
  /\ jsonFile[query.id].hash = hashQuery(query)

\* C5: for a Remote Updated record (L = C # R) the loop asks no prompt,
\* writes the remote body and the remote fingerprint, so that right after
\* local fingerprint = cached fingerprint = remote fingerprint, and the
\* pulled-from-remote counter increases by exactly 1.
C5_RemoteUpdatedPulls ==
  [][(/\ TakesRecord /\ HeadHasMeta /\ RowRemoteUpdated(HeadL, HeadC, HeadR)
      /\ ~WriteRejected)
       => /\ pc' = "next"
          /\ promptUserCalls' = promptUserCalls
          /\ promptConflictCalls' = promptConflictCalls
          /\ sqlFile'[HeadQ.id] = OrEmpty(HeadQ.query)
          /\ jsonFile'[HeadQ.id].hash = HeadR
          /\ LocalHashOf(sqlFile'[HeadQ.id]) = jsonFile'[HeadQ.id].hash
          /\ updatedFromRemote' = updatedFromRemote + 1
          /\ UNCHANGED <<downloaded, skipped, updatedToRemote, conflicts>>
    ]_vars

\* C6: a run that follows a completed run, with no remote and no local
\* change in between, classifies every record Unchanged, asks no prompt,
\* pulls nothing, pushes nothing and writes nothing.
C6_SecondRunAllUnchanged ==
  (run > 1 /\ prevStatus = "Sync complete")
    => /\ branch \in {"none", "unchanged"}
       /\ pc \in {"start", "next", "summary", "done", "failed"}
       /\ promptUserCalls = 0 /\ promptConflictCalls = 0
       /\ downloaded = 0 /\ updatedFromRemote = 0 /\ updatedToRemote = 0
       /\ updateCalls = 0 /\ writes = 0

\* a step that ends the handling of a Local Modified record
EndsLocalModified ==
  /\ branch' = "local_modified"
  /\ pc' = "next"
  /\ TakesRecord \/ pc = "promptUser" \/ pc = "upload"

\* a step in which promptUser resolves to one of the given responses
UploadAnswered(rs) ==
  pc = "promptUser" /\ promptUserCalls' = promptUserCalls + 1 /\ response' \in rs

\* a step in which promptConflict resolves to one of the given responses
ConflictAnswered(rs) ==
  /\ pc = "promptConflict"
  /\ promptConflictCalls' = promptConflictCalls + 1
  /\ response' \in rs

\* nothing is written, nothing is sent
NoWriteNoUpdate == UNCHANGED <<sqlFile, jsonFile, remote, writes, updateCalls>>

ConfirmAllEffect(q, lsc) ==
  /\ NoWriteNoUpdate
  /\ UNCHANGED <<downloaded, updatedFromRemote, updatedToRemote, conflicts>>
  /\ IF lsc # Null /\ lsc # <<>>
     THEN /\ pc' = "upload" /\ query' = q /\ localSqlContent' = lsc
          /\ skipped' = skipped
     ELSE pc' = "next" /\ skipped' = skipped + 1

KeepLocalEffect(q, lsc) ==
  /\ UNCHANGED <<sqlFile, jsonFile, remote, writes, updateCalls>>
  /\ UNCHANGED <<downloaded, skipped, updatedFromRemote, updatedToRemote>>
  /\ IF lsc # Null /\ lsc # <<>>
     THEN /\ pc' = "conflictUpload" /\ query' = q /\ localSqlContent' = lsc
          /\ conflicts' = conflicts
     ELSE pc' = "next" /\ conflicts' = conflicts + 1

\* resolution take-remote for record q, the write not being rejected
TakeRemoteEffect(q) ==
  /\ pc' = "next"
  /\ sqlFile'[q.id] = OrEmpty(q.query)
  /\ jsonFile'[q.id].hash = generateHash(OrEmpty(q.query))
  /\ \A i \in QueryIds \ {q.id} :
       sqlFile'[i] = sqlFile[i] /\ jsonFile'[i] = jsonFile[i]
  /\ updatedFromRemote' = updatedFromRemote + 1
  /\ UNCHANGED <<remote, updateCalls>>
  /\ UNCHANGED <<downloaded, skipped, updatedToRemote, conflicts>>

\* C8: once the conflict prompt was answered local-all or remote-all,
\* promptConflict is never called again in the run, and the current record
\* and every later Conflict record is resolved exactly as a single local,
\* respectively remote, answer resolves a record.
C8_LatchedConflict ==
  [][/\ conflictBatchMode # None
          => /\ promptConflictCalls' = promptConflictCalls
             /\ conflictBatchMode' = conflictBatchMode
     /\ ConflictAnswered({"local-all"}) => conflictBatchMode' = "local-all"
     /\ ConflictAnswered({"remote-all"}) => conflictBatchMode' = "remote-all"
     /\ ConflictAnswered({"local", "local-all"})
          => KeepLocalEffect(query, localSqlContent)
     /\ (TakesRecord /\ branch' = "conflict" /\ conflictBatchMode = "local-all")
          => KeepLocalEffect(HeadQ, readQuerySql(HeadQ.id))
     /\ (ConflictAnswered({"remote", "remote-all"}) /\ ~WriteRejected)
          => TakeRemoteEffect(query)
     /\ (/\ TakesRecord /\ branch' = "conflict"
         /\ conflictBatchMode = "remote-all" /\ ~WriteRejected)
          => TakeRemoteEffect(HeadQ)
    ]_vars

\* local-all was answered once for the first record and the second Conflict
\* record went to the upload without a prompt
C8_Witness ==
  /\ conflictBatchMode = "local-all"
  /\ promptConflictCalls = 1
  /\ total = 2
  /\ branch = "conflict"
  /\ pc = "conflictUpload"

\* C9: the two batch slots are independent: a step that latches one leaves
\* the other unchanged, a Conflict record is prompted whenever the conflict
\* slot is unset and a Local Modified record whenever the upload slot is
\* unset (and showDiff returned), whatever the other slot holds; both slots
\* are unset when a run starts.
C9_SlotsIndependent ==
  [][/\ (pc = "next" /\ ~fetched)
          => batchMode = None /\ conflictBatchMode = None
     /\ run' # run => batchMode' = None /\ conflictBatchMode' = None
     /\ (run' = run /\ batchMode' # batchMode)
          => conflictBatchMode' = conflictBatchMode
     /\ (run' = run /\ conflictBatchMode' # conflictBatchMode)
          => batchMode' = batchMode
     /\ (TakesRecord /\ branch' = "conflict" /\ conflictBatchMode = None)
          => pc' = "promptConflict"
     /\ (TakesRecord /\ branch' = "local_modified" /\ batchMode = None
           /\ ~SpawnUnhandled)
          => pc' = "promptUser"
    ]_vars

\* the upload slot is latched and a Conflict record is still prompted
C9_Witness ==
  /\ batchMode = "yes-all"
  /\ conflictBatchMode = None
  /\ pc = "promptConflict"
  /\ promptUserCalls = 1

\* C10: the quit answer leaves the current record's files unchanged and
\* adds it to no action counter; after it no record is taken, no page is
\* requested, no update is sent and nothing is written; quit can only be
\* given at the prompt, before any write for the record has started.
C10_Abort ==
  [][/\ pc = "promptUser"
          => /\ readQuerySql(query.id) = localSqlContent
             /\ jsonFile[query.id] # NoMeta
             /\ jsonFile[query.id].hash = cachedHash
     /\ UploadAnswered({"quit"})
          => /\ userQuit' /\ pc' = "summary"
             /\ UNCHANGED <<sqlFile, jsonFile, remote, writes, updateCalls,
                            requests>>
             /\ UNCHANGED <<downloaded, skipped, updatedFromRemote,
                            updatedToRemote, conflicts, total>>
     /\ userQuit
          => /\ userQuit'
             /\ UNCHANGED <<sqlFile, jsonFile, remote, writes, updateCalls,
                            requests, page, idx, total>>
             /\ UNCHANGED <<downloaded, skipped, updatedFromRemote,
                            updatedToRemote, conflicts>>
    ]_vars

\* quit was answered at the first record: the run ended with one record
\* taken and one page requested
C10_Witness ==
  /\ userQuit
  /\ status = "Sync interrupted"
  /\ pc = "done"
  /\ total = 1
  /\ requests = 1
  /\ downloaded + skipped + updatedFromRemote + updatedToRemote + conflicts = 0

\* C11: every run that took at least one record from the stream has, when it
\* ends (stream exhausted, abort given, or fatal error), printed the Run
\* Summary, with status interrupted exactly when an abort was given and
\* complete otherwise.
C11_SummaryOnEveryExit ==
  (pc \in {"done", "failed"} /\ total >= 1)
    => /\ status \in {"Sync complete", "Sync interrupted"}
       /\ status = "Sync interrupted" <=> userQuit

\* a step in which updateQuery returned for a Local Modified record and the
\* local write that follows it was not rejected
UploadReturned ==
  /\ pc = "upload"
  /\ updateCalls' = updateCalls + 1
  /\ lastUpdate'.ok
  /\ ~WriteRejected

\* C12: on a confirmed upload of a Local Modified record whose update call
\* succeeds, the body written to the local body file is the body of the
\* server's returned record, the metadata is built from the returned record,
\* and the pushed-to-remote counter increases by exactly 1.
C12_UploadStoresServerBody ==
  [][UploadReturned
       => /\ sqlFile'[query.id] = remote'[query.id].query
          /\ jsonFile'[query.id].id = remote'[query.id].id
          /\ jsonFile'[query.id].hash = hashQuery(remote'[query.id])
          /\ updatedToRemote' = updatedToRemote + 1
    ]_vars

\* what a decline does to the Local Modified record q
DeclineEffect(q) ==
  /\ NoWriteNoUpdate
  /\ skipped' = skipped + 1
  /\ UNCHANGED <<downloaded, updatedFromRemote, updatedToRemote, conflicts>>
  /\ pc' = "next"
  /\ outcome'[q.id] = "declined"

\* C13: a declined Local Modified record (answer skip, empty or unrecognized
\* input, or latched skip-all) causes no update and no write: body file and
\* metadata are unchanged and skipped increases by exactly 1; in the next
\* run, with neither side changed, the record is Local Modified again.
C13_DeclineKeepsLocalModified ==
  [][/\ UploadAnswered({"skip", "skip-all"}) => DeclineEffect(query)
     /\ (TakesRecord /\ branch' = "local_modified" /\ batchMode = "skip-all")
          => DeclineEffect(HeadQ)
     /\ (TakesRecord /\ run > 1 /\ prevOutcome[HeadQ.id] = "declined")
          => branch' = "local_modified"
    ]_vars

\* a record declined in the first run has reached the upload prompt again in
\* the second run
C13_Witness ==
  /\ run = 2
  /\ pc = "promptUser"
  /\ branch = "local_modified"
  /\ prevOutcome[query.id] = "declined"
  /\ localSqlContent # Null /\ localSqlContent # <<>>

\* what the skip resolution does to the Conflict record q
ConflictSkipEffect(q) ==
  /\ sqlFile' = sqlFile
  /\ jsonFile' = jsonFile
  /\ UNCHANGED <<remote, updateCalls, writes>>
  /\ conflicts' = conflicts + 1
  /\ UNCHANGED <<downloaded, skipped, updatedFromRemote, updatedToRemote>>
  /\ pc' = "next"
  /\ outcome'[q.id] = "conflict_skipped"

\* C14: a Conflict record resolved as skip keeps its body file and its
\* cached fingerprint, nothing is sent, the conflict counter increases by
\* exactly 1, and in the next run, with neither side changed, the record is
\* in the conflict path again.
C14_ConflictSkipReappears ==
  [][/\ ConflictAnswered({"skip"}) => ConflictSkipEffect(query)
     /\ (TakesRecord /\ run > 1 /\ prevOutcome[HeadQ.id] = "conflict_skipped")
          => branch' = "conflict"
    ]_vars

\* a conflict skipped in the first run has reached the conflict prompt again
\* in the second run, with the same three fingerprints pairwise distinct
C14_Witness ==
  /\ run = 2
  /\ pc = "promptConflict"
  /\ branch = "conflict"
  /\ prevOutcome[query.id] = "conflict_skipped"
  /\ localHash # cachedHash /\ cachedHash # remoteHash /\ localHash # remoteHash

\* a step that resolves the Conflict record q as take-remote, by an answer
\* or by the latched remote-all, the write not being rejected
TakesRemote(q) ==
  /\ ~WriteRejected
  /\ \/ ConflictAnswered({"remote", "remote-all"}) /\ q = query
     \/ /\ TakesRecord /\ branch' = "conflict"
        /\ conflictBatchMode = "remote-all" /\ q = HeadQ

\* C15: resolving a Conflict record as take-remote makes the local body the
\* body the Remote Source holds and the cached fingerprint its fingerprint,
\* sends no update, and increases the pulled-from-remote counter by exactly
\* 1 while the conflict counter does not change.
C15_TakeRemote ==
  [][\A q \in {query, IF CanTake THEN HeadQ ELSE query} :
       TakesRemote(q)
         => /\ remote[q.id] = q
            /\ sqlFile'[q.id] = OrEmpty(remote[q.id].query)
            /\ jsonFile'[q.id].id = q.id
            /\ jsonFile'[q.id].hash = generateHash(OrEmpty(remote[q.id].query))
            /\ jsonFile'[q.id].hash = hashQuery(remote'[q.id])
            /\ writes' = writes + 1
            /\ UNCHANGED <<remote, updateCalls, lastUpdate>>
            /\ updatedFromRemote' = updatedFromRemote + 1
            /\ UNCHANGED <<conflicts, downloaded, skipped, updatedToRemote>>
    ]_vars

\* a conflict with three pairwise distinct fingerprints was resolved as
\* remote: the local body that differed was replaced by the remote body
C15_Witness ==
  /\ branch = "conflict"
  /\ outcome[query.id] = "took_remote"
  /\ response = "remote"
  /\ updatedFromRemote = 1 /\ conflicts = 0 /\ updateCalls = 0
  /\ sqlFile[query.id] = OrEmpty(remote[query.id].query)
  /\ jsonFile[query.id].hash = hashQuery(query)
  /\ jsonFile[query.id].downloaded_at = run

\* a step that resolves the Conflict record q as keep-local, by an answer or
\* by the latched local-all
KeepsLocal(q) ==
  \/ ConflictAnswered({"local", "local-all"}) /\ q = query
  \/ /\ TakesRecord /\ branch' = "conflict"
     /\ conflictBatchMode = "local-all" /\ q = HeadQ

\* C16: resolving a Conflict record as keep-local sends the local body to
\* the Remote Source with update, whatever local state the record is in;
\* when the update succeeds the new local snapshot is the server's returned
\* record, the pushed-to-remote counter increases by exactly 1 and the
\* conflict counter does not.
C16_KeepLocalAlwaysPushes ==
  [][/\ \A q \in {query, IF CanTake THEN HeadQ ELSE query} :
          KeepsLocal(q)
            => /\ pc' = "conflictUpload"
               /\ query' = q
               /\ localSqlContent' = readQuerySql(q.id)
     /\ (/\ pc = "conflictUpload" /\ updateCalls' = updateCalls + 1
         /\ lastUpdate'.ok /\ ~WriteRejected)
          => /\ lastUpdate'.body = localSqlContent
             /\ sqlFile'[query.id] = remote'[query.id].query
             /\ jsonFile'[query.id].hash = hashQuery(remote'[query.id])
             /\ updatedToRemote' = updatedToRemote + 1
             /\ conflicts' = conflicts
    ]_vars

\* C17: a failure of updateQuery for a record never ends the run: the error
\* is caught, the record's body file and metadata stay as they were, the
\* pushed counter does not increase, the record is counted an unresolved
\* conflict when the push was made in the conflict path, and the stream is
\* left where it was, so that the later records are still taken.
C17_UpdateFailureIsCaught ==
  [][UpdateRejected
       => /\ pc \in {"upload", "conflictUpload"}
          /\ updateCalls' = updateCalls + 1
          /\ ~lastUpdate'.ok /\ lastUpdate'.id = query.id
          /\ pc' = "next"
          /\ exitCode' = -1
          /\ UNCHANGED <<sqlFile, jsonFile, remote, writes>>
          /\ updatedToRemote' = updatedToRemote
          /\ conflicts' = IF pc = "conflictUpload" THEN conflicts + 1
                          ELSE conflicts
          /\ UNCHANGED <<downloaded, skipped, updatedFromRemote, total>>
          /\ UNCHANGED <<page, results, idx, fetched>>
          /\ UNCHANGED <<batchMode, conflictBatchMode, userQuit>>
    ]_vars

\* the push of the first record failed, the second record was processed
\* all the same and the run ended with the summary and exit code 0
C17_Witness ==
  /\ pc = "done"
  /\ status = "Sync complete"
  /\ exitCode = 0
  /\ total = 2
  /\ outcome[1] = "push_failed"
  /\ outcome[2] \notin {"none", "push_failed"}
  /\ errorsThrown = <<"TransportError:updateQuery">>
  /\ conflicts + updatedToRemote <= 1

\* C18: every rejection of saveQuery during a run propagates out of
\* downloadQueries as a fatal error, in every path that writes, and after
\* it no later record is processed.
C18_WriteFailureIsFatal ==
  [][/\ WriteRejected => pc' = "failed" /\ exitCode' = 1
     /\ (\E k \in 1..Len(errorsThrown) :
           errorsThrown[k] = "IOFailure:saveQuery")
          => UNCHANGED <<total, idx, sqlFile, jsonFile, remote>>
    ]_vars

\* C19: a failed page request of getAllQueries ends the run at once: the
\* error leaves downloadQueries, the process exits with code 1, nothing is
\* read, classified, written or pushed in or after the failing step, the
\* page is not requested again, and the writes made for the records before
\* the failure stay.
C19_PageFailureIsFatal ==
  [][/\ PageRejected
          => /\ pc = "next"
             /\ requests' = requests + 1
             /\ pc' = "failed"
             /\ exitCode' = 1
             /\ status' = None
             /\ UNCHANGED <<sqlFile, jsonFile, remote, writes, updateCalls>>
             /\ UNCHANGED <<page, results, idx, fetched, query, branch>>
             /\ UNCHANGED <<downloaded, skipped, updatedFromRemote,
                            updatedToRemote, conflicts, total>>
     /\ pc = "failed"
          => UNCHANGED <<requests, total, idx, sqlFile, jsonFile, remote,
                         writes, updateCalls, promptUserCalls,
                         promptConflictCalls, exitCode, status>>
    ]_vars

\* the request for the second page failed after both records of the first
\* page were written as New: the run is over with exit code 1 and the two
\* records are on disk
C19_Witness ==
  /\ pc = "failed"
  /\ exitCode = 1
  /\ errorsThrown = <<"TransportError:getAllQueries">>
  /\ requests = 2
  /\ total >= 2
  /\ writes = total
  /\ \A i \in 1..total :
       /\ outcome[i] = "new"
       /\ sqlFile[i] = OrEmpty(remote[i].query)
       /\ jsonFile[i].downloaded_at = run

\* REDASH_URL or REDASH_API_KEY is unset or empty
ConfigMissing ==
  \/ env.REDASH_URL = Null \/ env.REDASH_URL = <<>>
  \/ env.REDASH_API_KEY = Null \/ env.REDASH_API_KEY = <<>>

\* C20: when REDASH_URL or REDASH_API_KEY is absent or empty, the only step
\* the run takes is the failure at startup: no request has been sent, the
\* queries directory has not been created, no record has been read or
\* written, and the process exits with code 1.
C20_MissingConfigFailsAtStartup ==
  [][ConfigMissing
       => /\ pc = "start"
          /\ pc' = "failed"
          /\ exitCode' = 1
          /\ errorsThrown' = <<"ConfigurationError">>
          /\ requests' = 0 /\ updateCalls' = 0
          /\ dirEnsured' = FALSE
          /\ total' = 0 /\ writes' = 0
          /\ UNCHANGED <<sqlFile, jsonFile, remote, results, query>>
    ]_vars

\* the address is set and the key is empty: the run failed at startup
C20_Witness ==
  /\ env.REDASH_URL = <<"u">>
  /\ env.REDASH_API_KEY = <<>>
  /\ pc = "failed"
  /\ exitCode = 1
  /\ requests = 0
  /\ ~dirEnsured
  /\ \A i \in QueryIds : remote[i] = Unseen

\* ---- prompt parsing
\* v is the word w, compared without regard to the case of its letters
SameIgnoringCase(v, w) ==
  /\ Len(v) = Len(w)
  /\ \A k \in 1..Len(w) :
       \/ v[k] = w[k]
       \/ \E j \in 1..26 : LowerCase[j] = w[k] /\ UpperCase[j] = v[k]

\* the line l is the word w, in any case, with blanks around it
TypedWord(l, w) ==
  \E i \in 1..(Len(l) + 1) : \E j \in 0..Len(l) :
    /\ i <= j + 1
    /\ \A k \in 1..(i - 1) : l[k] \in Whitespace
    /\ \A k \in (j + 1)..Len(l) : l[k] \in Whitespace
    /\ SameIgnoringCase(SubSeq(l, i, j), w)

\* the responses whose word the line is; with none, the declining response
UploadMeaning(l) ==
  LET hits == { m \in {"yes", "skip", "yes-all", "skip-all", "quit"} :
                  \/ m = "yes" /\ TypedWord(l, WordYes)
                  \/ m = "skip" /\ TypedWord(l, WordSkip)
                  \/ m = "yes-all" /\ TypedWord(l, WordYesAll)
                  \/ m = "skip-all" /\ TypedWord(l, WordSkipAll)
                  \/ m = "quit" /\ TypedWord(l, WordQuit) }
  IN IF hits = {} THEN {"skip"} ELSE hits

ConflictMeaning(l) ==
  LET hits == { m \in {"local", "remote", "skip", "local-all", "remote-all"} :
                  \/ m = "local" /\ TypedWord(l, WordLocal)
                  \/ m = "remote" /\ TypedWord(l, WordRemote)
                  \/ m = "skip" /\ TypedWord(l, WordSkip)
                  \/ m = "local-all" /\ TypedWord(l, WordLocalAll)
                  \/ m = "remote-all" /\ TypedWord(l, WordRemoteAll) }
  IN IF hits = {} THEN {"skip"} ELSE hits

\* C21: whatever line is typed, in any case and with blanks around it, the
\* upload prompt resolves to exactly one of yes, skip, yes-all, skip-all and
\* quit, and the conflict prompt to exactly one of local, remote, skip,
\* local-all and remote-all; an empty or unrecognized line resolves to skip at
\* both; only a quit at the upload prompt aborts the run, the word quit typed
\* at the conflict prompt is a skip and the loop goes on.
C21_PromptParsingTotal ==
  [][/\ (pc = "promptUser" /\ promptUserCalls' = promptUserCalls + 1)
          => /\ UploadMeaning(line') = {response'}
             /\ userQuit' <=> response' = "quit"
             /\ pc' = "summary" <=> response' = "quit"
     /\ (pc = "promptConflict" /\ promptConflictCalls' = promptConflictCalls + 1)
          => /\ ConflictMeaning(line') = {response'}
             /\ TypedWord(line', WordQuit) => response' = "skip"
             /\ ~userQuit'
             /\ pc' \in {"next", "conflictUpload", "failed"}
             /\ pc' = "failed" => WriteRejected]_vars

\* the word quit, in capitals and followed by a tab, was typed at the conflict
\* prompt of the first record: it resolved to skip and the loop goes on
C21_Witness ==
  /\ line = <<"Q", "U", "I", "T", "\t">>
  /\ response = "skip"
  /\ promptConflictCalls = 1
  /\ outcome[1] = "conflict_skipped"
  /\ ~userQuit
  /\ pc = "next"

\* ---- documented answers
\* C22: at the upload prompt the answer `no` skips the current record only
\* (no update, no write, skipped + 1, no batch mode latched), and the answer
\* `no-all` skips the current record and all remaining modified ones: after
\* it no Local Modified record of the run is prompted.
C22_DocumentedDeclineWords ==
  [][/\ (pc = "promptUser" /\ promptUserCalls' = promptUserCalls + 1
           /\ line' = WordNo)
          => DeclineEffect(query) /\ UNCHANGED <<batchMode, userQuit>>
     /\ (pc = "promptUser" /\ promptUserCalls' = promptUserCalls + 1
           /\ line' = WordNoAll)
          => DeclineEffect(query)
     /\ (TakesRecord /\ line = WordNoAll /\ outcome[query.id] = "declined"
           /\ branch' = "local_modified")
          => /\ pc' # "promptUser"
             /\ promptUserCalls' = promptUserCalls
             /\ DeclineEffect(results[idx])]_vars

\* ---- fingerprints
\* the text x with the whitespace at its end left out
Core(x) ==
  LET k == CHOOSE k \in 0..Len(x) :
             /\ k = 0 \/ x[k] \notin Whitespace
             /\ \A j \in (k + 1)..Len(x) : x[j] \in Whitespace
  IN SubSeq(x, 1, k)

\* y is x followed by whitespace only
TrailingExtension(x, y) ==
  \E k \in 0..Len(y) :
    /\ x = SubSeq(y, 1, k)
    /\ \A j \in (k + 1)..Len(y) : y[j] \in Whitespace

C24_ExitCode ==
  /\ pc = "done" => exitCode = 0
  /\ (pc = "failed" /\ total = 0)
       => /\ exitCode = 1
          /\ errorsThrown \in { <<"ConfigurationError">>,
                                <<"TransportError:getAllQueries">> }
  /\ pc \notin {"done", "failed"} => exitCode = -1
  /\ exitCode = 0 => status \in {"Sync complete", "Sync interrupted"}

\* a run that went through the whole stream, with a push that failed and a
\* conflict left unresolved, ended with exit code 0
C24_Witness ==
  /\ pc = "done"
  /\ exitCode = 0
  /\ status = "Sync complete"
  /\ errorsThrown = <<"TransportError:updateQuery">>
  /\ conflicts = 1
  /\ total = NumQueries

\* ---- uniform fingerprinting
\* C25: whenever the loop takes a record with cached state whose local body
\* file holds exactly the body of the remote record, the empty body included,
\* the local fingerprint it computes equals the remote fingerprint it
\* computes.
C25_UniformFingerprint ==
  [][(TakesRecord /\ HeadHasMeta /\ sqlFile[HeadQ.id] = HeadQ.query)
       => HeadL = HeadR]_vars

\* ---- snapshot consistency
\* C26: after every write of a record's snapshot (New, Remote Updated,
\* take-remote, confirmed upload, keep-local), the fingerprint stored in the
\* metadata is the fingerprint of the body stored in the body file, whatever
\* record the server returned from the update.
C26_SnapshotConsistent ==
  [][writes' = writes + 1
       => \A i \in QueryIds :
            (sqlFile'[i] # sqlFile[i] \/ jsonFile'[i] # jsonFile[i])
              => jsonFile'[i].hash = generateHash(sqlFile'[i])]_vars

\* ---- one record at a time
\* a record is being reconciled: a prompt or an update is awaited
InProgress == pc \in {"promptUser", "upload", "promptConflict", "conflictUpload"}

\* C27: records are reconciled one at a time in the order of the stream: a
\* record is taken only when the one before it has ended (its prompt, update
\* and write included), every prompt, update and write of a step is for the
\* current record, no record is taken and no page is requested while one is
\* in progress, and the local metadata and body a record is classified and
\* pushed with are the ones read before any write for it.
C27_OneRecordAtATime ==
  [][/\ total' = total + 1
          => /\ pc = "next"
             /\ query' = results[idx]
             /\ query'.id = total + 1
             /\ total > 0 => outcome[query.id] # "none"
             /\ outcome[query'.id] = "none"
             /\ jsonFile[query'.id] # NoMeta
                  => branch' = Classify(LocalHashOf(readQuerySql(query'.id)),
                                        jsonFile[query'.id].hash,
                                        hashQuery(query'))
     /\ InProgress
          => /\ total' = total /\ query' = query /\ UNCHANGED <<gen, requests>>
             /\ outcome[query.id] = "none"
             /\ localSqlContent = readQuerySql(query.id)
             /\ cachedHash = jsonFile[query.id].hash
     /\ (promptUserCalls' # promptUserCalls
           \/ promptConflictCalls' # promptConflictCalls \/ updateCalls' # updateCalls)
          => InProgress
     /\ updateCalls' = updateCalls + 1
          => lastUpdate'.id = query.id /\ lastUpdate'.body = localSqlContent
     /\ \A i \in QueryIds :
          (sqlFile'[i] # sqlFile[i] \/ jsonFile'[i] # jsonFile[i])
            => /\ i = query'.id
               /\ outcome[i] = "none" /\ outcome'[i] # "none"]_vars

\* the second record is at its upload prompt after the push of the first
\* one was written back
C27_Witness ==
  /\ total = 2
  /\ query.id = 2
  /\ pc = "promptUser"
  /\ outcome[1] = "pushed"
  /\ jsonFile[1].downloaded_at = run
  /\ outcome[2] = "none"

ShowDiffCalled ==
  /\ TakesRecord
  /\ branch' = "local_modified"
  /\ batchMode = None /\ ~userQuit
  /\ Truthy(localSqlContent')

\* C29: whatever the machine offers (git, diff, a writable temporary
\* directory), a call of showDiff raises no error and does not end the
\* process: it returns and the upload prompt is asked for the record.
C29_ShowDiffNeverFails ==
  [][ShowDiffCalled
       => /\ pc' = "promptUser"
          /\ exitCode' = -1
          /\ errorsThrown' = errorsThrown]_vars

\* ---- interrupted writes
\* C30: when the write of a record that had metadata was cut short after
\* query.sql was written and before query.json was (or was rejected inside
\* the upload try), the next run classifies the record Local Modified or
\* Conflict, never Unchanged or Remote Updated, and its local body is only
\* replaced on the operator's decision to take the remote side.
C30_InterruptedWriteIsNoticed ==
  [][(total' = total + 1
        /\ prevOutcome[query'.id] \in {"write_interrupted", "push_unsaved"}
        /\ jsonFile[query'.id] # NoMeta)
       => /\ branch' \in {"local_modified", "conflict"}
          /\ sqlFile'[query'.id] # sqlFile[query'.id]
               => conflictBatchMode = "remote-all"
          /\ (batchMode = None /\ conflictBatchMode = None /\ ~SpawnUnhandled)
               => pc' \in {"promptUser", "promptConflict"} /\ UNCHANGED disk
    ]_vars

\* a pull of a Remote Updated record wrote query.sql and died before
\* query.json; in the next run the record is at the conflict prompt
C30_Witness ==
  /\ run = 2
  /\ pc = "promptConflict"
  /\ prevOutcome[query.id] = "write_interrupted"
  /\ branch = "conflict"
  /\ localHash = remoteHash
  /\ cachedHash # remoteHash

\* ---- what is sent to the Remote Source
\* a step that confirms the upload of the Local Modified record q, by an
\* answer or by the latched yes-all
Confirms(q) ==
  \/ UploadAnswered({"yes", "yes-all"}) /\ q = query
  \/ /\ TakesRecord /\ branch' = "local_modified"
     /\ batchMode = "yes-all" /\ q = HeadQ

\* the record whose handling is in progress was confirmed, resp. kept local
Confirmed == response \in {"yes", "yes-all"} \/ batchMode = "yes-all"
KeptLocal == response \in {"local", "local-all"} \/ conflictBatchMode = "local-all"

Counted ==
  downloaded + updatedFromRemote + updatedToRemote + skipped + conflicts

\* how many of the five counters differ after the step
CountersMoved ==
  Cardinality({k \in 1..5 :
     <<downloaded, updatedFromRemote, updatedToRemote, skipped,
       conflicts>>[k]
       # <<downloaded', updatedFromRemote', updatedToRemote', skipped',
           conflicts'>>[k]})

\* updateQuery failed for a Local Modified record in this run: the record
\* has the outcome of a failed push and, nothing having been written or
\* sent for it, is still Local Modified
LocalModifiedPushFailed ==
  \E i \in QueryIds :
    /\ outcome[i] = "push_failed"
    /\ remote[i] # Unseen
    /\ BranchOf(remote[i]) = "local_modified"

\* C32: within a run no counter decreases; a record taken from the stream
\* increases total by exactly 1, and total increases in no other way; the
\* handling of a record increases at most one of new, pulled, pushed,
\* skipped, conflicts, by exactly 1 (a counter moves only in the step that
\* gives the record in hand its outcome); so their sum never exceeds total,
\* and equals total when the summary is printed, unless the operator
\* aborted or updateQuery failed for a Local Modified record.
C32_CounterAccounting ==
  [][run' = run
       => /\ downloaded' >= downloaded /\ skipped' >= skipped
          /\ updatedFromRemote' >= updatedFromRemote
          /\ updatedToRemote' >= updatedToRemote
          /\ conflicts' >= conflicts /\ total' >= total
          /\ total' = IF TakesRecord THEN total + 1 ELSE total
          /\ Counted' # Counted
               => /\ Counted' = Counted + 1
                  /\ CountersMoved = 1
                  /\ outcome[query'.id] = "none"
                  /\ outcome'[query'.id] # "none"
          /\ \A i \in QueryIds : outcome[i] # "none" => outcome'[i] # "none"
          /\ Counted' <= total'
          /\ (pc = "summary" /\ pc' = "done" /\ ~userQuit
              /\ ~LocalModifiedPushFailed)
               => Counted' = total'
    ]_vars

\* ---- when the local body is replaced
\* the conflict in hand is resolved take-remote, by the answer or the latch
TakeRemoteDecided ==
  response' \in {"remote", "remote-all"} \/ conflictBatchMode = "remote-all"

\* C33: within a run the content of a record's body file changes only to
\* the body of the streamed record in hand, and only when the record had no
\* metadata (New), or its local fingerprint equalled the cached one (Remote
\* Updated), or its conflict was resolved take-remote (by an answer or the
\* latch); while a Local Modified record is handled no body file changes.
C33_RemoteOverwritesOnlyInThreeCases ==
  [][run' = run
       => /\ \A i \in QueryIds :
               sqlFile'[i] # sqlFile[i]
                 => /\ i = query'.id
                    /\ sqlFile'[i] = OrEmpty(query'.query)
                    /\ \/ branch' = "new" /\ jsonFile[i] = NoMeta
                       \/ /\ branch' = "remote_updated"
                          /\ jsonFile[i] # NoMeta
                          /\ LocalHashOf(readQuerySql(i)) = jsonFile[i].hash
                       \/ /\ branch' = "conflict"
                          /\ jsonFile[i] # NoMeta
                          /\ TakeRemoteDecided
          /\ branch' = "local_modified" => sqlFile' = sqlFile
    ]_vars

\* the first record was Remote Updated and its body was replaced by the
\* streamed one; the second was Local Modified and pushed, and its body
\* file still holds the local content, which is not the streamed body
C33_Witness ==
  /\ total = 2 /\ pc = "next"
  /\ outcome[1] = "pulled" /\ outcome[2] = "pushed"
  /\ branch = "local_modified" /\ query.id = 2
  /\ sqlFile[1] = OrEmpty(remote[1].query)
  /\ jsonFile[1].hash = hashQuery(remote[1])
  /\ sqlFile[2] # OrEmpty(query.query)
  /\ sqlFile[2] = lastUpdate.body
  /\ updatedFromRemote = 1 /\ updatedToRemote = 1

====
